---------------------------- MODULE Spec2Model ----------------------------
(***************************************************************************)
(* Model of run.py, the S3 backup health-check server of                   *)
(* kobotoolbox/validate-s3-backups.                                        *)
(*                                                                         *)
(* Strings are sequences of one-character strings ("1D" is <<"1","D">>).  *)
(* A Python dict is a function whose DOMAIN is the set of keys present.    *)
(* Times are counted in ticks, TicksPerSecond ticks to the second, so that *)
(* datetime.now() can fall between two whole seconds; S3 reports           *)
(* LastModified in whole seconds.                                          *)
(***************************************************************************)
EXTENDS Integers, Sequences, FiniteSets, TLC

VARIABLES
    ageIn,       \* argument of one call of _convert_age_to_seconds
    ageOut,      \* its outcome
    selObjs,     \* obj_summaries as returned by the store (one listing)
    selSuffix,   \* the backup's suffix setting
    selOut,      \* outcome of the selection of last_backup
    configFile,  \* the file at config_path
    configLog,   \* every content the config file has had, oldest first
    store,       \* the bucket's objects, in listing order
    now,         \* the wall clock, in ticks
    req          \* per request: the handler's locals and its position

vars == <<ageIn, ageOut, selObjs, selSuffix, selOut,
          configFile, configLog, store, now, req>>

ageVars == <<ageIn, ageOut>>
selVars == <<selObjs, selSuffix, selOut>>
srvVars == <<configFile, configLog, store, now, req>>

-----------------------------------------------------------------------------
(* Bounds of the model *)

MaxAgeLen == 3

MaxObjects == 3

MaxConfigWrites == 1

-----------------------------------------------------------------------------
(* Strings and dicts *)

Last(s) == s[Len(s)]

Front(s) == SubSeq(s, 1, Len(s) - 1)

\* str.endswith(suffix)
EndsWith(s, suffix) ==
    /\ Len(suffix) <= Len(s)
    /\ SubSeq(s, Len(s) - Len(suffix) + 1, Len(s)) = suffix

\* str.startswith(prefix): the store's Prefix filter
StartsWith(s, prefix) ==
    /\ Len(prefix) <= Len(s)
    /\ SubSeq(s, 1, Len(prefix)) = prefix

\* dict.get(k, default)
Get(d, k, default) == IF k \in DOMAIN d THEN d[k] ELSE default

\* All sequences over S of length at most n
SeqsUpTo(S, n) == UNION {[1..k -> S] : k \in 0..n}

-----------------------------------------------------------------------------
(* _convert_age_to_seconds *)

\* string.ascii_letters
ascii_letters ==
    {"a","b","c","d","e","f","g","h","i","j","k","l","m",
     "n","o","p","q","r","s","t","u","v","w","x","y","z",
     "A","B","C","D","E","F","G","H","I","J","K","L","M",
     "N","O","P","Q","R","S","T","U","V","W","X","Y","Z"}

valid_units_bug ==
    [M |-> 60, H |-> 60 * 60, D |-> 60 * 60 * 24 * 7, W |-> 60 * 60 * 24]

valid_units ==
    [M |-> 60, H |-> 60 * 60, D |-> 60 * 60 * 24, W |-> 60 * 60 * 24 * 7]

Digits == {"0","1","2","3","4","5","6","7","8","9"}

DigitValue(c) ==
    CASE c = "0" -> 0 [] c = "1" -> 1 [] c = "2" -> 2 [] c = "3" -> 3
      [] c = "4" -> 4 [] c = "5" -> 5 [] c = "6" -> 6 [] c = "7" -> 7
      [] c = "8" -> 8 [] c = "9" -> 9

\* Whether int(s) accepts s: an optional sign and at least one digit.
IsIntLiteral(s) ==
    LET body == IF s # <<>> /\ Head(s) \in {"-", "+"} THEN Tail(s) ELSE s
    IN  /\ body # <<>>
        /\ \A i \in 1..Len(body) : body[i] \in Digits

RECURSIVE DecimalValue(_)
DecimalValue(s) ==
    IF s = <<>> THEN 0 ELSE DecimalValue(Front(s)) * 10 + DigitValue(Last(s))

\* int(s), for s accepted by int()
IntOf(s) ==
    IF Head(s) = "-" THEN 0 - DecimalValue(Tail(s))
    ELSE IF Head(s) = "+" THEN DecimalValue(Tail(s))
    ELSE DecimalValue(s)

Returned(n) == [kind |-> "return", seconds |-> n]

Raised(e) == [kind |-> e, seconds |-> 0]

\* The outcome of _convert_age_to_seconds(age): the seconds returned, or the
\* exception raised. str(age)[-1] raises IndexError on the empty string and
\* int() raises ValueError on a magnitude that is no integer literal.
convert_age_to_seconds(age) ==
    IF age = <<>> THEN Raised("IndexError")
    ELSE LET letter == Last(age) \in ascii_letters
             unit == IF ~letter THEN "H" ELSE Last(age)
             magnitude == IF ~letter THEN age ELSE Front(age)
         IN  IF unit \notin DOMAIN valid_units
             THEN Raised("ImproperlyConfiguredBackupConfigException")
             ELSE IF ~IsIntLiteral(magnitude) THEN Raised("ValueError")
             ELSE Returned(IntOf(magnitude) * valid_units[unit])

AgeAlphabet ==
    {"0", "1", "2", "5", ".", "-", "M", "H", "D", "W", "X", "d", "h", "x"}

AgeStrings == SeqsUpTo(AgeAlphabet, MaxAgeLen)

Pending == [kind |-> "pending", seconds |-> 0]

ConvertAge ==
    /\ ageOut = Pending
    /\ ageOut' = convert_age_to_seconds(ageIn)
    /\ UNCHANGED <<ageIn, selVars, srvVars>>

-----------------------------------------------------------------------------
(* The selection of last_backup in _validate_backup *)

TicksPerSecond == 2

KiB == 1024

ObjectSummary(key, size, last_modified) ==
    [key |-> key, size |-> size, last_modified |-> last_modified]

\* get_last_modified = lambda o: int(o.last_modified.strftime('%s')): the
\* whole seconds of the timestamp (shifted by the offset of the local time
\* zone, which is the same for every object and leaves the order as it is)
get_last_modified(o) == o.last_modified \div TicksPerSecond

\* Where sorted() puts x among the already sorted objects when ties are
\* reversed (a sort that is not stable).
InsertDescUnstable(sorted, x) ==
    LET before == {i \in 1..Len(sorted) :
                     get_last_modified(sorted[i]) > get_last_modified(x)}
        k == Cardinality(before)
    IN  SubSeq(sorted, 1, k) \o <<x>> \o SubSeq(sorted, k + 1, Len(sorted))

\* Ascending order: reverse=True left out.
InsertAsc(sorted, x) ==
    LET before == {i \in 1..Len(sorted) :
                     get_last_modified(sorted[i]) <= get_last_modified(x)}
        k == Cardinality(before)
    IN  SubSeq(sorted, 1, k) \o <<x>> \o SubSeq(sorted, k + 1, Len(sorted))

\* One step of sorted(key=get_last_modified, reverse=True): x goes after
\* every object whose key is greater or equal, so equal keys keep the order
\* of the listing (Python's sort is stable, also with reverse=True).
InsertDesc(sorted, x) ==
    LET before == {i \in 1..Len(sorted) :
                     get_last_modified(sorted[i]) >= get_last_modified(x)}
        k == Cardinality(before)
    IN  SubSeq(sorted, 1, k) \o <<x>> \o SubSeq(sorted, k + 1, Len(sorted))

RECURSIVE SortedByLastModified(_)
\* sorted(obj_summaries, key=get_last_modified, reverse=True)
SortedByLastModified(objs) ==
    IF objs = <<>> THEN <<>>
    ELSE InsertDesc(SortedByLastModified(Front(objs)), Last(objs))

\* The for loop over obj_summaries: the first object whose key ends with
\* suffix, as a sequence of at most one object (<<>> is None).
FirstMatching(objs, suffix) ==
    LET hits == {i \in 1..Len(objs) : EndsWith(objs[i].key, suffix)}
    IN  IF hits = {} THEN <<>>
        ELSE <<objs[CHOOSE i \in hits : \A j \in hits : i <= j]>>

\* last_backup after lines 196-213: None (<<>>) or the object selected.
\* An absent suffix (None) and an empty one are both false in "if suffix:"
\* and both are given here as <<>>.
SelectLastBackup(listing, suffix) ==
    LET obj_summaries == SortedByLastModified(listing)
    IN  IF suffix # <<>> THEN FirstMatching(obj_summaries, suffix)
        ELSE IF obj_summaries # <<>> THEN <<obj_summaries[1]>>
        ELSE <<>>

\* Object keys, all under the prefix "d/" but the last
KeyNames ==
    { <<"d", "/", "a", ".", "g">>, <<"d", "/", "b", ".", "g">>,
      <<"d", "/", "c", ".", "t">>, <<"d", "/", "g">>, <<"e", "/", "a", ".", "g">> }

Suffixes == { <<>>, <<".", "g">>, <<"g">>, <<".", "z">> }

NotSelected == [done |-> FALSE, last_backup |-> <<>>]

Select ==
    /\ selOut = NotSelected
    /\ selOut' = [done |-> TRUE,
                  last_backup |-> SelectLastBackup(selObjs, selSuffix)]
    /\ UNCHANGED <<selObjs, selSuffix, ageVars, srvVars>>

-----------------------------------------------------------------------------
(* The request handler, MyHTTPRequestHandler.do_GET *)

OK == 200

BAD_REQUEST == 400

FORBIDDEN == 403

NOT_FOUND == 404

INTERNAL_SERVER_ERROR == 500

\* A path segment is the sequence of its parts between '?' characters: the
\* first part is a name, every other part a query string, itself the
\* sequence of its <<name, value>> pairs. "db?token=ab" is
\* <<"db", << <<"token", <<"a","b">> >> >> >>.
Segment(name) == <<name>>

WithQuery(segment, qs) == Append(segment, qs)

\* d[segment] is defined: a segment holding a '?' is no key of the config
HasKey(d, segment) == Len(segment) = 1 /\ segment[1] \in DOMAIN d

Item(d, segment) == d[segment[1]]

RECURSIVE JoinTokenValues(_)
\* ''.join(parse_qs(qs).get('token', [])): parse_qs() drops blank values
JoinTokenValues(qs) ==
    IF qs = <<>> THEN <<>>
    ELSE IF Head(qs)[1] = "token" THEN Head(qs)[2] \o JoinTokenValues(Tail(qs))
    ELSE JoinTokenValues(Tail(qs))

\* What lines 77-88 decide: "pass", "forbidden", or the ValueError of
\* service.split on "?" on a segment with several '?'.
TokenCheck(token, service) ==
    IF token # <<>> /\ Len(service) > 1
    THEN IF Len(service) # 2 THEN "ValueError"
         ELSE IF JoinTokenValues(service[2]) # token THEN "forbidden"
         ELSE "pass"
    ELSE "pass"

\* The except clauses of do_GET (lines 99-113): exception -> response.
\* {service} stands for the service name formatted into the text.
ExceptHandlers ==
    [ImproperlyConfiguredBackupConfigException |->
        [status |-> INTERNAL_SERVER_ERROR,
         output |-> "Backup configuration is improperly configured"],
     BackupConfigNotFoundException |->
        [status |-> BAD_REQUEST,
         output |-> "Could not find {service} backup settings"],
     BackupFileNotFoundException |->
        [status |-> NOT_FOUND,
         output |-> "Could not find any files matching {service} backup settings"],
     BadSizeFileException |->
        [status |-> INTERNAL_SERVER_ERROR,
         output |-> "Latest backup found is too small"],
     TooOldBackupException |->
        [status |-> INTERNAL_SERVER_ERROR,
         output |-> "Latest backup found is too old"]]

\* Ceiling instead of floor in the size check
TooSmallCeil(min_size, size) ==
    min_size # 0 /\ min_size > (size + KiB - 1) \div KiB

\* min_size and min_size > int(last_backup.size / 1024); None is given as 0
TooSmall(min_size, size) ==
    min_size # 0 /\ min_size > size \div KiB

\* >= instead of > in the age check
TooOldInclusive(diff, seconds) == diff >= seconds * TicksPerSecond

\* diff.total_seconds() > seconds, diff in ticks
TooOld(diff, seconds) == diff > seconds * TicksPerSecond

\* prefix = f'{prefix}/' unless it ends with '/'
NormalizePrefix(prefix) ==
    IF EndsWith(prefix, <<"/">>) THEN prefix ELSE prefix \o <<"/">>

\* bucket.objects.filter(Prefix=prefix) on a bucket holding objects
FilterPrefix(objects, prefix) ==
    SelectSeq(objects, LAMBDA o : StartsWith(o.key, prefix))

RequiredFields == {"bucket_name", "access_key", "secret_key"}

Requests == {1, 2}

Idle ==
    [pc |-> "idle", path |-> <<>>, environment |-> <<>>, service |-> <<>>,
     global_config |-> <<>>, issued |-> 0, version |-> 0, reads |-> 0,
     listing |-> <<>>, lists |-> 0, last_backup |-> <<>>, now |-> 0,
     seconds |-> 0, status |-> 0, output |-> "", trace |-> <<>>]

\* The request's snapshot of the config file and what it looks up in it
GlobalConfig(r) == req[r].global_config[1]

EnvironmentConfig(r) == Item(GlobalConfig(r), req[r].environment)

BackupConfig(r) == Item(EnvironmentConfig(r).backups, req[r].service)

\* One step of request r: step is appended to the steps taken and the
\* fields of changes are assigned.
Step(r, step, changes) ==
    req' = [req EXCEPT ![r] =
              [f \in DOMAIN @ |->
                 IF f = "trace" THEN Append(@.trace, step)
                 ELSE IF f \in DOMAIN changes THEN changes[f]
                 ELSE @[f]]]

\* _create_response(content, status_code) and return
Respond(r, step, status, output) ==
    Step(r, step, [pc |-> "done", status |-> status, output |-> output])

\* An exception raised in _validate_backup: a response if do_GET has an
\* except clause for it, otherwise it leaves do_GET and nothing is written.
Raise(r, step, exception) ==
    IF exception \in DOMAIN ExceptHandlers
    THEN Respond(r, step, ExceptHandlers[exception].status,
                 ExceptHandlers[exception].output)
    ELSE Step(r, step, [pc |-> "crashed"])

\* do_GET is entered with self.path = path (the leading and trailing '/'
\* stripped, the rest split on '/')
Receive(r, paths) ==
    /\ req[r].pc = "idle"
    /\ \E path \in paths :
         req' = [req EXCEPT ![r] =
                   [Idle EXCEPT !.pc = "split", !.path = path,
                                !.issued = Len(configLog)]]
    /\ UNCHANGED <<configFile, configLog, store, now, ageVars, selVars>>

\* lines 50-59: environment, service = path.split('/')
SplitPath(r) ==
    /\ req[r].pc = "split"
    /\ IF Len(req[r].path) # 2
       THEN Respond(r, "split", BAD_REQUEST,
                    "Please specify an environment and service")
       ELSE Step(r, "split", [pc |-> "load", environment |-> req[r].path[1],
                              service |-> req[r].path[2]])
    /\ UNCHANGED <<configFile, configLog, store, now, ageVars, selVars>>

\* A server that reads the file once, when it starts
ReadConfigFileAtStart == configLog[1]

\* _get_config: open(self._config_path), read
ReadConfigFile == configFile

\* lines 61-74 and _get_config: the file is opened, read and decoded.
\* version and reads record which content was read, and how often.
LoadConfig(r) ==
    /\ req[r].pc = "load"
    /\ LET file == ReadConfigFile
           read == [version |-> Len(configLog), reads |-> req[r].reads + 1]
       IN  CASE file.state = "missing" ->
                  Step(r, "load",
                       read @@ [pc |-> "done", status |-> INTERNAL_SERVER_ERROR,
                                output |-> "Could not find config file"])
             [] file.state = "invalid" ->
                  Step(r, "load",
                       read @@ [pc |-> "done", status |-> INTERNAL_SERVER_ERROR,
                                output |-> "Could not decode config file"])
             [] OTHER ->
                  Step(r, "load",
                       read @@ [pc |-> "token", global_config |-> file.json])
    /\ UNCHANGED <<configFile, configLog, store, now, ageVars, selVars>>

\* lines 76-88
CheckToken(r) ==
    /\ req[r].pc = "token"
    /\ LET token == Get(GlobalConfig(r), "token", <<>>)
           check == TokenCheck(token, req[r].service)
       IN  CASE check = "forbidden" ->
                  Respond(r, "token", FORBIDDEN, "Access forbidden")
             [] check = "ValueError" -> Raise(r, "token", "ValueError")
             [] OTHER ->
                  Step(r, "token",
                       [pc |-> "environment",
                        service |-> IF token # <<>> /\ Len(req[r].service) > 1
                                    THEN Segment(req[r].service[1])
                                    ELSE req[r].service])
    /\ UNCHANGED <<configFile, configLog, store, now, ageVars, selVars>>

\* lines 90-94: environment_config = global_config[environment]
LookupEnvironment(r) ==
    /\ req[r].pc = "environment"
    /\ IF ~HasKey(GlobalConfig(r), req[r].environment)
       THEN Respond(r, "environment", NOT_FOUND, "Could not find environment")
       ELSE Step(r, "environment", [pc |-> "credentials"])
    /\ UNCHANGED <<configFile, configLog, store, now, ageVars, selVars>>

\* The bucket listed as soon as the credentials are read, before the
\* backup settings are looked up.
ReadCredentialsAndList(r) ==
    /\ req[r].pc = "credentials"
    /\ IF ~(RequiredFields \subseteq DOMAIN EnvironmentConfig(r))
       THEN Raise(r, "credentials", "KeyError")
       ELSE Step(r, "credentials", [pc |-> "backup", listing |-> store,
                                    lists |-> req[r].lists + 1])
    /\ UNCHANGED <<configFile, configLog, store, now, ageVars, selVars>>

\* lines 165-168: config['bucket_name'], ['access_key'], ['secret_key']
ReadCredentials(r) ==
    /\ req[r].pc = "credentials"
    /\ IF ~(RequiredFields \subseteq DOMAIN EnvironmentConfig(r))
       THEN Raise(r, "credentials", "KeyError")
       ELSE Step(r, "credentials", [pc |-> "backup"])
    /\ UNCHANGED <<configFile, configLog, store, now, ageVars, selVars>>

\* lines 170-173: backup_config = config['backups'][backup]
LookupBackup(r) ==
    /\ req[r].pc = "backup"
    /\ IF \/ "backups" \notin DOMAIN EnvironmentConfig(r)
          \/ ~HasKey(EnvironmentConfig(r).backups, req[r].service)
       THEN Raise(r, "backup", "BackupConfigNotFoundException")
       ELSE Step(r, "backup", [pc |-> "age"])
    /\ UNCHANGED <<configFile, configLog, store, now, ageVars, selVars>>

\* lines 175-179: age = backup_config['age']
RequireAge(r) ==
    /\ req[r].pc = "age"
    /\ IF "age" \notin DOMAIN BackupConfig(r)
       THEN Raise(r, "age", "ImproperlyConfiguredBackupConfigException")
       ELSE Step(r, "age", [pc |-> "list"])
    /\ UNCHANGED <<configFile, configLog, store, now, ageVars, selVars>>

\* lines 181-200: the prefix is normalized and the bucket listed under it
ListObjects(r) ==
    /\ req[r].pc = "list"
    /\ LET prefix == NormalizePrefix(Get(BackupConfig(r), "prefix", <<"/">>))
       IN  Step(r, "list", [pc |-> "select",
                            listing |-> FilterPrefix(store, prefix),
                            lists |-> req[r].lists + 1])
    /\ UNCHANGED <<configFile, configLog, store, now, ageVars, selVars>>

\* lines 206-216: the listing is sorted and last_backup selected
SelectBackup(r) ==
    /\ req[r].pc = "select"
    /\ LET last_backup ==
             SelectLastBackup(req[r].listing, Get(BackupConfig(r), "suffix", <<>>))
       IN  IF last_backup = <<>>
           THEN Raise(r, "select", "BackupFileNotFoundException")
           ELSE Step(r, "select", [pc |-> "size", last_backup |-> last_backup])
    /\ UNCHANGED <<configFile, configLog, store, now, ageVars, selVars>>

\* lines 218-219
CheckSize(r) ==
    /\ req[r].pc = "size"
    /\ IF TooSmall(Get(BackupConfig(r), "min_size", 0), req[r].last_backup[1].size)
       THEN Raise(r, "size", "BadSizeFileException")
       ELSE Step(r, "size", [pc |-> "parse"])
    /\ UNCHANGED <<configFile, configLog, store, now, ageVars, selVars>>

\* lines 221-223: the clock is read, then the age expression converted
ParseAge(r) ==
    /\ req[r].pc = "parse"
    /\ LET converted == convert_age_to_seconds(BackupConfig(r).age)
       IN  IF converted.kind # "return"
           THEN Raise(r, "parse", converted.kind)
           ELSE Step(r, "parse", [pc |-> "compare", now |-> now,
                                  seconds |-> converted.seconds])
    /\ UNCHANGED <<configFile, configLog, store, now, ageVars, selVars>>

\* lines 223-224 and 114-119
CompareAge(r) ==
    /\ req[r].pc = "compare"
    /\ IF TooOld(req[r].now - req[r].last_backup[1].last_modified, req[r].seconds)
       THEN Raise(r, "compare", "TooOldBackupException")
       ELSE Respond(r, "compare", OK, "Backup is OK!")
    /\ UNCHANGED <<configFile, configLog, store, now, ageVars, selVars>>

\* _validate_backup(config, backup) run to its end on one listing and one
\* reading of the clock: the exception it raises, or "return".
validate_backup(config, backup, listing, clock) ==
    IF ~(RequiredFields \subseteq DOMAIN config) THEN "KeyError"
    ELSE IF "backups" \notin DOMAIN config \/ ~HasKey(config.backups, backup)
    THEN "BackupConfigNotFoundException"
    ELSE LET backup_config == Item(config.backups, backup) IN
    IF "age" \notin DOMAIN backup_config
    THEN "ImproperlyConfiguredBackupConfigException"
    ELSE LET last_backup ==
                 SelectLastBackup(listing, Get(backup_config, "suffix", <<>>))
             converted == convert_age_to_seconds(backup_config.age)
         IN
    IF last_backup = <<>> THEN "BackupFileNotFoundException"
    ELSE IF TooSmall(Get(backup_config, "min_size", 0), last_backup[1].size)
    THEN "BadSizeFileException"
    ELSE IF converted.kind # "return" THEN converted.kind
    ELSE IF TooOld(clock - last_backup[1].last_modified, converted.seconds)
    THEN "TooOldBackupException"
    ELSE "return"

Answer(status, output) == [pc |-> "done", status |-> status, output |-> output]

NoAnswer == [pc |-> "crashed", status |-> 0, output |-> ""]

\* do_GET run to its end on one content of the config file, one listing
\* (under the backup's prefix) and one reading of the clock
DoGet(path, file, listing, clock) ==
    IF Len(path) # 2
    THEN Answer(BAD_REQUEST, "Please specify an environment and service")
    ELSE IF file.state = "missing"
    THEN Answer(INTERNAL_SERVER_ERROR, "Could not find config file")
    ELSE IF file.state = "invalid"
    THEN Answer(INTERNAL_SERVER_ERROR, "Could not decode config file")
    ELSE LET global_config == file.json[1]
             token == Get(global_config, "token", <<>>)
             check == TokenCheck(token, path[2])
             service == IF token # <<>> /\ Len(path[2]) > 1
                        THEN Segment(path[2][1]) ELSE path[2]
         IN
    IF check = "forbidden" THEN Answer(FORBIDDEN, "Access forbidden")
    ELSE IF check = "ValueError" THEN NoAnswer
    ELSE IF ~HasKey(global_config, path[1])
    THEN Answer(NOT_FOUND, "Could not find environment")
    ELSE LET raised == validate_backup(Item(global_config, path[1]), service,
                                       listing, clock)
         IN
    IF raised = "return" THEN Answer(OK, "Backup is OK!")
    ELSE IF raised \in DOMAIN ExceptHandlers
    THEN Answer(ExceptHandlers[raised].status, ExceptHandlers[raised].output)
    ELSE NoAnswer

Handle(r) ==
    \/ SplitPath(r)
    \/ LoadConfig(r)
    \/ CheckToken(r)
    \/ LookupEnvironment(r)
    \/ ReadCredentials(r)
    \/ LookupBackup(r)
    \/ RequireAge(r)
    \/ ListObjects(r)
    \/ SelectBackup(r)
    \/ CheckSize(r)
    \/ ParseAge(r)
    \/ CompareAge(r)

-----------------------------------------------------------------------------
(* The environment: config files, buckets, clock and requests *)

EmptyDict == [k \in {} |-> k]

\* The entry k of a dict when option holds a value, no entry when it is <<>>
Present(k, option) == IF option = <<>> THEN EmptyDict ELSE k :> option[1]

BackupSettings(age, prefix, suffix, min_size) ==
    Present("age", age) @@ Present("prefix", prefix)
        @@ Present("suffix", suffix) @@ Present("min_size", min_size)

Environment(fields, backups) ==
    [f \in fields |-> "value"] @@ Present("backups", backups)

Config(token, environment) ==
    Present("token", token) @@ ("prod" :> environment)

ConfigFile(config) == [state |-> "ok", json |-> <<config>>]

MissingFile == [state |-> "missing", json |-> <<>>]

InvalidFile == [state |-> "invalid", json |-> <<>>]

AgeOptions ==
    { <<>>, << <<"1", "D">> >>, << <<"1", "0", "X">> >>, << <<"x", "D">> >>,
      << <<"1", ".", "5">> >>, << <<"D">> >>, << <<>> >> }

MinSizeOptions == { <<>>, <<0>>, <<100>> }

PrefixOptions == { <<>>, << <<"d">> >>, << <<"d", "/">> >> }

SuffixOptions == { <<>>, << <<>> >>, << <<".", "g">> >> }

BackupSettingsServed ==
    {BackupSettings(a, << <<"d">> >>, <<>>, m) :
        a \in AgeOptions, m \in MinSizeOptions}
    \cup {BackupSettings(<< <<"1", "D">> >>, p, x, <<100>>) :
        p \in PrefixOptions, x \in SuffixOptions}

BaseSettings == BackupSettings(<< <<"1", "D">> >>, << <<"d">> >>, <<>>, <<100>>)

AllFields == RequiredFields \cup {"region"}

EnvironmentsServed ==
    {Environment(AllFields, <<"db" :> b>>) : b \in BackupSettingsServed}
    \cup {Environment(AllFields \ {f}, <<"db" :> BaseSettings>>) : f \in AllFields}
    \cup {Environment(AllFields, <<>>)}

BaseEnvironment == Environment(AllFields, <<"db" :> BaseSettings>>)

SecretToken == <<"a", "b">>

ConfigsServed ==
    {Config(<<>>, e) : e \in EnvironmentsServed}
    \cup {Config(t, e) :
            t \in { << <<>> >>, <<SecretToken>> },
            e \in { BaseEnvironment,
                    Environment(RequiredFields \ {"bucket_name"},
                                <<"db" :> BaseSettings>>),
                    Environment(AllFields,
                        <<"db" :> BackupSettings(<< <<"x", "D">> >>,
                                                 << <<"d">> >>, <<>>, <<>>)>>) }}

ConfigFiles == {ConfigFile(c) : c \in ConfigsServed} \cup {MissingFile, InvalidFile}

Query(name, value) == << <<name, value>> >>

Paths ==
    LET prod == Segment("prod")
        dev == Segment("dev")
        db == Segment("db")
    IN  { <<prod, db>>,
          <<prod, WithQuery(db, Query("token", SecretToken))>>,
          <<prod, WithQuery(db, Query("token", <<"z", "z">>))>>,
          <<prod, WithQuery(db, Query("other", SecretToken))>>,
          <<prod, WithQuery(db, Query("token", <<"a">>) \o Query("token", <<"b">>))>>,
          <<prod, WithQuery(WithQuery(db, Query("token", SecretToken)),
                            Query("token", SecretToken))>>,
          <<prod, Segment("files")>>,
          <<dev, db>>,
          <<dev, WithQuery(db, Query("token", <<"z", "z">>))>>,
          <<prod>>,
          <<prod, db, db>> }

\* All listings of at most n of the objects, one object per key
Listings(objects, n) ==
    {l \in SeqsUpTo(objects, n) :
        \A i, j \in 1..Len(l) : i # j => l[i].key # l[j].key}

Sizes == {51200, 102399, 102400, 204800}

\* The clock reads 200000 s, or a tick later; the objects are 50, 24 and
\* 10 hours old
ModifiedSeconds == {20000, 113600, 164000}

Clock == {200000 * TicksPerSecond, 200000 * TicksPerSecond + 1}

MaxStoreObjects == 2

StoreObjects ==
    {ObjectSummary(<<"d", "/", "a", ".", "g">>, z, t * TicksPerSecond) :
        z \in Sizes, t \in ModifiedSeconds}
    \cup {ObjectSummary(<<"d", "/", "c", ".", "t">>, 51200, 164000 * TicksPerSecond),
          ObjectSummary(<<"e", "/", "a", ".", "g">>, 204800, 164000 * TicksPerSecond)}

Stores == Listings(StoreObjects, MaxStoreObjects)

-----------------------------------------------------------------------------
(* Specifications *)

NoAge == ageIn = <<>> /\ ageOut = Pending

NoSelection == selObjs = <<>> /\ selSuffix = <<>> /\ selOut = NotSelected

NoServer ==
    /\ configFile = MissingFile
    /\ configLog = <<configFile>>
    /\ store = <<>>
    /\ now = 0
    /\ req = [r \in Requests |-> Idle]

\* One request served from a fixed config file, bucket and clock
Init ==
    /\ NoAge
    /\ NoSelection
    /\ configFile \in ConfigFiles
    /\ configLog = <<configFile>>
    /\ store \in Stores
    /\ now \in Clock
    /\ req = [r \in Requests |-> Idle]

Next == Receive(1, Paths) \/ Handle(1)

Spec == Init /\ [][Next]_vars

\* _convert_age_to_seconds applied to every short string
InitAge ==
    /\ ageIn \in AgeStrings
    /\ ageOut = Pending
    /\ NoSelection
    /\ NoServer

NextAge == ConvertAge

SpecAge == InitAge /\ [][NextAge]_vars

SelectObjects ==
    {ObjectSummary(k, 204800, t * TicksPerSecond) :
        k \in {key \in KeyNames : StartsWith(key, <<"d", "/">>)},
        t \in {1, 2, 3}}

\* The selection applied to every short listing
InitSelect ==
    /\ NoAge
    /\ selObjs \in Listings(SelectObjects, MaxObjects)
    /\ selSuffix \in Suffixes
    /\ selOut = NotSelected
    /\ NoServer

NextSelect == Select

SpecSelect == InitSelect /\ [][NextSelect]_vars

-----------------------------------------------------------------------------
(* Concurrent requests, while the config file, the bucket and the clock change *)

ConcConfigFiles ==
    { ConfigFile(Config(<<>>, BaseEnvironment)),
      ConfigFile(Config(<<SecretToken>>, BaseEnvironment)),
      MissingFile }

ConcPaths ==
    { <<Segment("prod"), Segment("db")>>,
      <<Segment("prod"), WithQuery(Segment("db"), Query("token", <<"z", "z">>))>> }

ConcStores ==
    { <<ObjectSummary(<<"d", "/", "a", ".", "g">>, 51200, 164000 * TicksPerSecond)>>,
      <<ObjectSummary(<<"d", "/", "a", ".", "g">>, 204800, 113600 * TicksPerSecond)>> }

\* The operator rewrites config.json
WriteConfig ==
    /\ Len(configLog) <= MaxConfigWrites
    /\ \E file \in ConcConfigFiles \ {configFile} :
         /\ configFile' = file
         /\ configLog' = Append(configLog, file)
    /\ UNCHANGED <<store, now, req, ageVars, selVars>>

\* Backups are uploaded to or removed from the bucket
ChangeStore ==
    /\ \E objects \in ConcStores \ {store} : store' = objects
    /\ UNCHANGED <<configFile, configLog, now, req, ageVars, selVars>>

\* Time passes
Tick ==
    /\ \E t \in Clock : t > now /\ now' = t
    /\ UNCHANGED <<configFile, configLog, store, req, ageVars, selVars>>

InitConc ==
    /\ NoAge
    /\ NoSelection
    /\ configFile \in ConcConfigFiles
    /\ configLog = <<configFile>>
    /\ store \in ConcStores
    /\ now = 200000 * TicksPerSecond
    /\ req = [r \in Requests |-> Idle]

NextConc ==
    \/ \E r \in Requests : Receive(r, ConcPaths) \/ Handle(r)
    \/ WriteConfig
    \/ ChangeStore
    \/ Tick

SpecConc == InitConc /\ [][NextConc]_vars

-----------------------------------------------------------------------------
(* Properties *)

Finished(r) == req[r].pc \in {"done", "crashed"}

Took(r, step) == \E i \in 1..Len(req[r].trace) : req[r].trace[i] = step

Answered(r, status, output) ==
    req[r].pc = "done" /\ req[r].status = status /\ req[r].output = output

\* The service segment carries a token parameter equal to token
CarriesToken(segment, token) ==
    /\ Len(segment) = 2
    /\ \E i \in 1..Len(segment[2]) : segment[2][i] = <<"token", token>>

\* C1: when the loaded config declares a non-empty token, every request
\* whose service segment carries no token parameter equal to it (also a
\* request with no query string) is answered 403 "Access forbidden".
C1_ForbiddenWithoutToken ==
    \A r \in Requests :
        (/\ Took(r, "token")
         /\ Get(GlobalConfig(r), "token", <<>>) # <<>>
         /\ ~CarriesToken(req[r].path[2], GlobalConfig(r).token))
        => Answered(r, FORBIDDEN, "Access forbidden")

\* The backup that the request names is configured wrongly: a required
\* field of the environment is missing, or the age is missing or does not
\* convert.
ConfigurationError(r) ==
    /\ Took(r, "environment")
    /\ HasKey(GlobalConfig(r), req[r].environment)
    /\ LET config == EnvironmentConfig(r) IN
       /\ "backups" \in DOMAIN config
       /\ HasKey(config.backups, req[r].service)
       /\ \/ ~(RequiredFields \subseteq DOMAIN config)
          \/ "age" \notin DOMAIN BackupConfig(r)
          \/ convert_age_to_seconds(BackupConfig(r).age).kind # "return"

\* C2: every configuration error of a backup (missing age, missing required
\* field, age that does not parse) ends the request with 500 "Backup
\* configuration is improperly configured", whatever the listing holds.
C2_ConfigurationErrorsGive500 ==
    \A r \in Requests :
        (Finished(r) /\ ConfigurationError(r))
        => Answered(r, INTERNAL_SERVER_ERROR,
                    "Backup configuration is improperly configured")

\* C3: a selected object with sizeBytes < min_size * 1024 gives TooSmall,
\* also when it is older than the age threshold: TooOld is never returned
\* for an object that fails the size check.
C3_TooSmallBeforeTooOld ==
    \A r \in Requests :
        (/\ Finished(r)
         /\ req[r].last_backup # <<>>
         /\ req[r].last_backup[1].size
               < Get(BackupConfig(r), "min_size", 0) * KiB)
        => Answered(r, INTERNAL_SERVER_ERROR, "Latest backup found is too small")

\* A 50 KiB object 50 hours old under age 1D, min_size 100: both checks
\* would fail, and the answer is TooSmall.
C3_Witness ==
    \E r \in Requests :
        /\ Answered(r, INTERNAL_SERVER_ERROR, "Latest backup found is too small")
        /\ BackupConfig(r).age = <<"1", "D">>
        /\ BackupConfig(r).min_size = 100
        /\ req[r].last_backup[1].size = 51200
        /\ now - req[r].last_backup[1].last_modified > 86400 * TicksPerSecond

\* The request passed the size check and its age converts
ReachedAgeCheck(r) ==
    /\ Finished(r)
    /\ Took(r, "parse")
    /\ convert_age_to_seconds(BackupConfig(r).age).kind = "return"

\* C4: for an object that passes the size check the verdict is TooOld
\* exactly when now - lastModified, in seconds, is strictly greater than
\* parseAge(age), and OK otherwise; with age 1D the threshold is 86400 s.
C4_TooOldIffOlderThanAge ==
    \A r \in Requests :
        ReachedAgeCheck(r) =>
            LET age == BackupConfig(r).age
                seconds == convert_age_to_seconds(age).seconds
                diff == req[r].now - req[r].last_backup[1].last_modified
            IN  /\ age = <<"1", "D">> => seconds = 86400
                /\ IF diff > seconds * TicksPerSecond
                   THEN Answered(r, INTERNAL_SERVER_ERROR,
                                 "Latest backup found is too old")
                   ELSE Answered(r, OK, "Backup is OK!")

\* An object exactly as old as the threshold is OK
C4_Witness ==
    \E r \in Requests :
        /\ ReachedAgeCheck(r)
        /\ req[r].now - req[r].last_backup[1].last_modified
              = 86400 * TicksPerSecond
        /\ BackupConfig(r).age = <<"1", "D">>
        /\ Answered(r, OK, "Backup is OK!")

\* The places in the listing of the objects the suffix lets through
Candidates == {i \in 1..Len(selObjs) : EndsWith(selObjs[i].key, selSuffix)}

\* C5: the object selected is a candidate of the listing with the maximum
\* lastModified among the candidates (the objects whose key ends with the
\* suffix, all objects without suffix), and nothing is selected exactly
\* when there is no candidate.
C5_SelectsLatestCandidate ==
    selOut.done =>
        IF Candidates = {} THEN selOut.last_backup = <<>>
        ELSE /\ selOut.last_backup # <<>>
             /\ \E i \in Candidates :
                  /\ selObjs[i] = selOut.last_backup[1]
                  /\ \A j \in Candidates :
                       selObjs[j].last_modified <= selObjs[i].last_modified

\* A more recent object that does not match the suffix is passed over
C5_Witness ==
    /\ selOut.done
    /\ selOut.last_backup # <<>>
    /\ selSuffix # <<>>
    /\ \E j \in 1..Len(selObjs) :
         /\ j \notin Candidates
         /\ selObjs[j].last_modified > selOut.last_backup[1].last_modified

Units == [M |-> 60, H |-> 3600, D |-> 86400, W |-> 604800]

AllDigits(s) == s # <<>> /\ \A i \in 1..Len(s) : s[i] \in Digits

\* C6: parseAge returns magnitude x factor, the factor being 60 for a
\* trailing M, 3600 for H, 86400 for D, 604800 for W, and 3600 with the
\* whole string as magnitude when the last character is no letter; any
\* other trailing letter fails with ImproperlyConfigured. "1D" is 86400,
\* "2W" 1209600, "5" 18000 and "10X" fails.
C6_AgeFactors ==
    (ageOut # Pending /\ ageIn # <<>>) =>
        LET unit == Last(ageIn)
            failed == Raised("ImproperlyConfiguredBackupConfigException")
        IN  /\ (unit \in DOMAIN Units /\ AllDigits(Front(ageIn))) =>
                  ageOut = Returned(DecimalValue(Front(ageIn)) * Units[unit])
            /\ (unit \notin ascii_letters /\ AllDigits(ageIn)) =>
                  ageOut = Returned(DecimalValue(ageIn) * 3600)
            /\ (unit \in ascii_letters \ DOMAIN Units) => ageOut = failed
            /\ ageIn = <<"1", "D">> => ageOut = Returned(86400)
            /\ ageIn = <<"2", "W">> => ageOut = Returned(1209600)
            /\ ageIn = <<"5">> => ageOut = Returned(18000)
            /\ ageIn = <<"1", "0", "X">> => ageOut = failed

\* "2W" converted to two weeks
C6_Witness == ageIn = <<"2", "W">> /\ ageOut = Returned(1209600)

Verdicts ==
    { Answer(OK, "Backup is OK!"),
      Answer(NOT_FOUND, "Could not find environment"),
      Answer(BAD_REQUEST, "Could not find {service} backup settings"),
      Answer(NOT_FOUND,
             "Could not find any files matching {service} backup settings"),
      Answer(INTERNAL_SERVER_ERROR,
             "Backup configuration is improperly configured"),
      Answer(INTERNAL_SERVER_ERROR, "Latest backup found is too small"),
      Answer(INTERNAL_SERVER_ERROR, "Latest backup found is too old") }

Outcome(r) ==
    [pc |-> req[r].pc, status |-> req[r].status, output |-> req[r].output]

\* C7: every request with both path segments and a readable config, once
\* past the token check, ends in one response whose status is the one of
\* its verdict (200, 400, 404 or 500); none ends without a response.
C7_EveryRequestAnswered ==
    \A r \in Requests :
        (Finished(r) /\ Took(r, "token") /\ req[r].status # FORBIDDEN)
        => Outcome(r) \in Verdicts

ClaimedOrder ==
    <<"split", "load", "token", "environment", "backup", "age", "list",
      "select", "size", "parse", "compare">>

\* The step at which each response is decided
DecidedAt(output) ==
    CASE output = "Please specify an environment and service" -> {"split"}
      [] output \in {"Could not find config file",
                     "Could not decode config file"} -> {"load"}
      [] output = "Access forbidden" -> {"token"}
      [] output = "Could not find environment" -> {"environment"}
      [] output = "Could not find {service} backup settings" -> {"backup"}
      [] output = "Backup configuration is improperly configured" ->
             {"age", "parse"}
      [] output = "Could not find any files matching {service} backup settings" ->
             {"select"}
      [] output = "Latest backup found is too small" -> {"size"}
      [] output \in {"Latest backup found is too old", "Backup is OK!"} ->
             {"compare"}

\* C8: the steps of a request run in the fixed order path split, config
\* load, token check, environment lookup, backup-name lookup, age-presence
\* check, store listing, selection, size check, age parse, age check; the
\* store is listed at most once, and never by a request that ends before
\* the listing; the first failing step decides the response (a wrong token
\* gives 403 also for an unknown environment, a missing age 500 also for an
\* empty bucket, no matching object 404 also for an age that does not
\* convert).
C8_FixedOrderOneListing ==
    \A r \in Requests :
        LET steps == SelectSeq(req[r].trace, LAMBDA x : x # "credentials")
            listings == Cardinality({i \in 1..Len(req[r].trace) :
                                        req[r].trace[i] = "list"})
        IN  /\ Len(steps) <= Len(ClaimedOrder)
            /\ steps = SubSeq(ClaimedOrder, 1, Len(steps))
            /\ req[r].lists = listings
            /\ req[r].lists <= 1
            /\ req[r].pc = "done" =>
                  /\ Last(req[r].trace) \in DecidedAt(req[r].output)
                  /\ Last(req[r].trace) \in
                        {"split", "load", "token", "environment", "backup", "age"}
                     => req[r].lists = 0
            /\ (Finished(r) /\ Took(r, "token")
                  /\ TokenCheck(Get(GlobalConfig(r), "token", <<>>),
                                req[r].path[2]) = "forbidden")
               => Answered(r, FORBIDDEN, "Access forbidden")
            /\ (Finished(r) /\ Took(r, "age") /\ "age" \notin DOMAIN BackupConfig(r))
               => Answered(r, INTERNAL_SERVER_ERROR,
                           "Backup configuration is improperly configured")
            /\ (Finished(r) /\ Took(r, "select") /\ req[r].last_backup = <<>>)
               => Answered(r, NOT_FOUND,
                     "Could not find any files matching {service} backup settings")

\* A request that took every step, the bucket listed once, and whose age
\* check decided the response
C8_Witness ==
    \E r \in Requests :
        /\ Answered(r, INTERNAL_SERVER_ERROR, "Latest backup found is too old")
        /\ SelectSeq(req[r].trace, LAMBDA x : x # "credentials") = ClaimedOrder
        /\ req[r].lists = 1

\* C9: the config file is read once per request and never cached: under
\* every interleaving of requests and config changes, a request's response
\* is the one a sequential run gives for the file content the request read
\* (one that was current after the request was issued), the listing it
\* read and the clock it read.
C9_ResponseOfOwnSnapshot ==
    \A r \in Requests :
        /\ req[r].reads = IF Took(r, "load") THEN 1 ELSE 0
        /\ Took(r, "load") =>
              /\ req[r].issued <= req[r].version
              /\ req[r].version <= Len(configLog)
              /\ req[r].global_config = configLog[req[r].version].json
        /\ Finished(r) =>
              Outcome(r) = DoGet(req[r].path,
                                 IF Took(r, "load")
                                 THEN configLog[req[r].version] ELSE MissingFile,
                                 req[r].listing, req[r].now)

\* Two finished requests for the same path with different answers, the
\* second issued after the config file was rewritten
C9_Witness ==
    \E r, q \in Requests :
        /\ Finished(r) /\ Finished(q)
        /\ req[r].path = req[q].path
        /\ req[r].version < req[q].issued
        /\ req[r].global_config # <<>> /\ req[q].global_config # <<>>
        /\ req[r].global_config # req[q].global_config
        /\ req[r].status # req[q].status

\* The candidates with the maximum lastModified
Latest ==
    {i \in Candidates :
        \A j \in Candidates :
            selObjs[j].last_modified <= selObjs[i].last_modified}

\* C10: when several candidates share the maximum lastModified, the one
\* selected is the one that comes first in the listing.
C10_StableTieBreak ==
    (selOut.done /\ Latest # {}) =>
        selOut.last_backup =
            <<selObjs[CHOOSE i \in Latest : \A j \in Latest : i <= j]>>

\* Two candidates tied for the latest, behind an older object in the
\* listing: the first of the two is selected
C10_Witness ==
    /\ selOut.done
    /\ Cardinality(Latest) >= 2
    /\ \E i \in Latest : i > 1 /\ selOut.last_backup = <<selObjs[i]>>

=============================================================================
